---- MODULE Spec2Model ----
(***************************************************************************)
(* A model of arc-interner (src/src/lib.rs): the process-wide registry     *)
(* CONTAINER (TypeId -> Container<T>), the per-type stores                 *)
(* Container<T> = DashMap<Arc<T>, ()>, and the handles ArcIntern<T>.       *)
(*                                                                         *)
(* Every thread executes ArcIntern::new, ArcIntern::clone and the Drop of  *)
(* a handle.  new and drop are split at the points where another thread    *)
(* can interleave: each DashMap lock acquisition and each access to the    *)
(* atomic strong count of an Arc is a step of its own.  A DashMap is       *)
(* modelled with a single shard, i.e. one reader-writer lock per map,      *)
(* which is the most contended placement of keys on shards.  Values of T   *)
(* are plain data: they hold no ArcIntern handles of their own.            *)
(***************************************************************************)
EXTENDS Naturals, FiniteSets, Sequences

\* ---------------------------------------------------------------- bounds --
\* Number of Arc allocations that can be alive at the same time.
MaxOwners == 3
\* Number of handles the threads keep at the same time, all together.
MaxHandles == 2

Threads == {"t1", "t2"}
\* Two element types whose values look alike, such as &str and String.
Types   == {"A", "B"}
Vals    == {"foo", "bar"}
\* The values of each type that the threads intern.
ValsOf(ty) == IF ty = "A" THEN {"foo", "bar"} ELSE {"foo"}

Owners   == 1..MaxOwners

NoThread == "none"
NoArg    == [ty |-> "none", val |-> "none"]
NoVec    == [phase |-> "none", input |-> <<>>, v |-> <<>>]
NoTrip   == [phase |-> "none", o |-> 0, val |-> "none", n |-> 0, rc |-> 0]

VARIABLES
  container_init, \* CONTAINER: OnceCell has been initialised
  type_map,       \* CONTAINER's map: TypeId -> the box it holds, 0 = no entry
  nstores,        \* TypeId -> number of Container boxes created for it so far
  boxty,          \* TypeId -> the T of the Container<T> in its box
  content,        \* TypeId -> the Arc<T> keys of the Container in its box
  strong,         \* owner -> Arc strong count, 0 = not allocated
  otype,          \* owner -> type of the value it owns
  oval,           \* owner -> the value it owns
  reg_w,          \* thread holding the registry shard's write lock
  reg_r,          \* threads holding a read guard (Ref) on the registry shard
  slock,          \* TypeId -> thread holding the store shard's write lock
  held,           \* thread -> owner -> number of live handles on that owner
  pc,             \* thread -> position in new / drop
  cur,            \* thread -> argument of the running new (type and value)
  m,              \* thread -> TypeId of the store the running operation uses
  b,              \* thread -> key of the entry `b` in the running new
  dropping,       \* thread -> owner of the handle being dropped (self.arc)
  removed,        \* thread -> key returned by remove_if, not yet dropped
  rt,             \* the clone-then-drop round trip under observation
  vec             \* a Vec of handles: as built, and after sort()

vars == <<container_init, type_map, nstores, boxty, content, strong, otype, oval,
          reg_w, reg_r, slock, held, pc, cur, m, b, dropping, removed,
          rt, vec>>

regVars   == <<container_init, type_map, nstores, boxty>>
arcVars   == <<strong, otype, oval>>
lockVars  == <<reg_w, reg_r, slock>>
localVars == <<cur, m, b, dropping, removed>>

\* --------------------------------------------------------------- helpers --
\* A registry keyed by something that does not tell the types apart.
TypeIdErased(ty) == "A"

\* TypeId::of::<T>(): the registry key of a type.
TypeId(ty) == ty

\* A key comparison that takes any two values for equal.
KeyEqAny(k, v) == TRUE

\* Arc<T>: Eq / Hash compare the values pointed to.
KeyEq(k, v) == oval[k] = v

\* The keys of store s equal to Arc(v).
Lookup(s, v) == {k \in content[s] : KeyEq(k, v)}

\* A plain insert: the new Arc becomes the key whether or not one is there.
EntryKeyNew(hit, new) == new

\* Entry::or_insert: the key of the entry, the stored one when occupied.
EntryKey(hit, new) == IF hit # {} THEN CHOOSE k \in hit : TRUE ELSE new

\* The read guard of `get` kept across the else branch.
GetGuardKept(readers, t, found) == readers \cup {t}

\* `if let Some(boxed) = type_map.get(..)`: the read guards on the registry
\* shard afterwards; a guard is kept only when the key was found.
GetGuard(readers, t, found) == IF found THEN readers \cup {t} ELSE readers

\* A `get` that never finds the key.
GetFoundNever(box) == FALSE

\* type_map.get(&TypeId::of::<T>()) is Some: the key has a box.
GetFound(box) == box # 0

\* downcast_ref::<Container<T>>() is Some: the box holds a Container<T>.
downcast_ref(boxt, ty) == boxt = ty

\* PartialEq for ArcIntern: Arc::ptr_eq of the two owners.
eq(o1, o2) == o1 = o2

\* What a hasher is fed: the hash of a value of T, or the hash of an address.
HashOfValue(v) == <<"value", v>>
HashOfPointer(o) == <<"pointer", o>>

\* Hash for ArcIntern: `self.arc.deref()` is hashed, i.e. the value owned.
hash(o) == HashOfValue(oval[o])

\* Arc::strong_count
strong_count(o) == strong[o]

\* refcount without the store's reference taken off.
refcountRaw(o) == strong_count(o)

\* ArcIntern::refcount
refcount(o) == strong_count(o) - 1

\* A closure that evicts while other handles remain.
RemovePredEager(k) == strong_count(k) >= 2

\* A closure that forgets that the handle being dropped is still counted.
RemovePredOffByOne(k) == strong_count(k) = 1

\* The closure passed to remove_if in Drop.
RemovePred(k) == strong_count(k) = 2

\* ArcIntern::num_objects_interned
num_objects_interned(ty) ==
  IF container_init /\ type_map[TypeId(ty)] # 0
  THEN Cardinality(content[TypeId(ty)])
  ELSE 0

\* Arc allocation: the allocator hands out an unused address.
FreeOwners == {o \in Owners : strong[o] = 0}
FreshOwner == CHOOSE o \in FreeOwners : \A p \in FreeOwners : o <= p

\* Dropping one Arc reference (the strong count).
ArcDrop(st, o) == [st EXCEPT ![o] = @ - 1]

\* Dropping one Arc reference (the value): it is destroyed with the last one.
ArcDropVal(f, o) == IF strong[o] = 1 THEN [f EXCEPT ![o] = "none"] ELSE f

\* A copy of the pointer that does not count itself.
ArcCloneNoInc(st, o) == st

\* Arc::clone
ArcClone(st, o) == [st EXCEPT ![o] = @ + 1]

InNew(t)  == pc[t] \in {"n_get", "n_entry", "n_orins", "n_lock", "n_clone", "n_ret"}
InDrop(t) == pc[t] \in {"d_get", "d_remove", "d_dropkv", "d_release"}

\* Handles the threads keep, and those that running calls of new will return.
HandlesInUse ==
  LET RECURSIVE SumO(_, _)
      SumO(t, S) == IF S = {} THEN 0
                    ELSE LET o == CHOOSE x \in S : TRUE
                         IN held[t][o] + SumO(t, S \ {o})
      RECURSIVE SumT(_)
      SumT(S) == IF S = {} THEN 0
                 ELSE LET t == CHOOSE x \in S : TRUE
                      IN SumO(t, Owners) + (IF InNew(t) THEN 1 ELSE 0)
                         + SumT(S \ {t})
  IN SumT(Threads)

\* Allocations a running new still has to make.
PendingAllocs ==
  Cardinality({t \in Threads : pc[t] \in {"n_get", "n_entry", "n_orins", "n_lock"}})

\* ------------------------------------------------------------------ Init --
Init ==
  /\ container_init = FALSE
  /\ type_map = [ty \in Types |-> 0]
  /\ nstores = [ty \in Types |-> 0]
  /\ boxty = [ty \in Types |-> "none"]
  /\ content = [ty \in Types |-> {}]
  /\ strong = [o \in Owners |-> 0]
  /\ otype = [o \in Owners |-> "none"]
  /\ oval = [o \in Owners |-> "none"]
  /\ reg_w = NoThread
  /\ reg_r = {}
  /\ slock = [ty \in Types |-> NoThread]
  /\ held = [t \in Threads |-> [o \in Owners |-> 0]]
  /\ pc = [t \in Threads |-> "idle"]
  /\ cur = [t \in Threads |-> NoArg]
  /\ m = [t \in Threads |-> "none"]
  /\ b = [t \in Threads |-> 0]
  /\ dropping = [t \in Threads |-> 0]
  /\ removed = [t \in Threads |-> 0]
  /\ rt = NoTrip
  /\ vec = NoVec

\* ------------------------------------------------------- ArcIntern::new --
\* new(val): CONTAINER.get_or_init(|| DashMap::new())
NewBegin(t, ty, v) ==
  /\ pc[t] = "idle"
  /\ HandlesInUse < MaxHandles
  /\ Cardinality(FreeOwners) > PendingAllocs
  /\ container_init' = TRUE
  /\ cur' = [cur EXCEPT ![t] = [ty |-> ty, val |-> v]]
  /\ pc' = [pc EXCEPT ![t] = "n_get"]
  /\ UNCHANGED <<type_map, nstores, boxty, content, arcVars, lockVars, held,
                 m, b, dropping, removed, rt, vec>>

\* type_map.get(&TypeId::of::<T>()): a read guard on hit, nothing on miss.
NewGet(t) ==
  /\ pc[t] = "n_get"
  /\ reg_w = NoThread
  /\ reg_r' = GetGuard(reg_r, t, GetFound(type_map[TypeId(cur[t].ty)]))
  /\ IF GetFound(type_map[TypeId(cur[t].ty)])
     THEN /\ m' = [m EXCEPT ![t] = TypeId(cur[t].ty)]
          /\ pc' = [pc EXCEPT ![t] = "n_lock"]
     ELSE /\ pc' = [pc EXCEPT ![t] = "n_entry"]
          /\ UNCHANGED m
  /\ UNCHANGED <<regVars, content, arcVars, reg_w, slock, held,
                 cur, b, dropping, removed, rt, vec>>

\* type_map.entry(TypeId::of::<T>()): the shard's write lock.
NewEntry(t) ==
  /\ pc[t] = "n_entry"
  /\ reg_w = NoThread
  /\ reg_r = {}
  /\ reg_w' = t
  /\ pc' = [pc EXCEPT ![t] = "n_orins"]
  /\ UNCHANGED <<regVars, content, arcVars, reg_r, slock, held, localVars, rt, vec>>

\* A plain insert: a new box whether or not the key has one.
OrInsertWithAlways(box, n) == n + 1

\* .or_insert_with(|| Box::new(Container::<T>::new())): the box under key k
\* after the call, given the box there before (0 = vacant) and the number
\* of boxes created for k so far.
OrInsertWith(box, n) == IF box # 0 THEN box ELSE n + 1

\* .or_insert_with(..).downgrade(): the write lock becomes a read guard.
NewOrInsert(t) ==
  /\ pc[t] = "n_orins"
  /\ reg_w = t
  /\ LET k == TypeId(cur[t].ty)
         box == OrInsertWith(type_map[k], nstores[k])
     IN /\ type_map' = [type_map EXCEPT ![k] = box]
        /\ nstores' = [nstores EXCEPT ![k] = IF box = type_map[k] THEN @ ELSE box]
        /\ boxty' = [boxty EXCEPT ![k] = IF box = type_map[k] THEN @
                                         ELSE cur[t].ty]
        /\ content' = [content EXCEPT ![k] = IF box = type_map[k] THEN @ ELSE {}]
        /\ m' = [m EXCEPT ![t] = k]
  /\ reg_w' = NoThread
  /\ reg_r' = reg_r \cup {t}
  /\ pc' = [pc EXCEPT ![t] = "n_lock"]
  /\ UNCHANGED <<container_init, arcVars, slock, held,
                 cur, b, dropping, removed, rt, vec>>

\* boxed.value().downcast_ref::<Container<T>>().unwrap(): a box of another
\* type panics, and the unwinding drops the guard `boxed`.  Then
\* m.entry(Arc::new(val)).or_insert(()): the new Arc is allocated, then,
\* under the store shard's write lock, an occupied entry keeps its key and
\* the new Arc is dropped with the value in it, while a vacant entry stores
\* the new Arc.
NewStoreEntry(t) ==
  /\ pc[t] = "n_lock"
  /\ IF ~downcast_ref(boxty[m[t]], cur[t].ty)
     THEN /\ pc' = [pc EXCEPT ![t] = "panicked"]
          /\ reg_r' = reg_r \ {t}
          /\ UNCHANGED <<content, arcVars, slock, b>>
     ELSE /\ slock[m[t]] = NoThread
          /\ FreeOwners # {}
          /\ slock' = [slock EXCEPT ![m[t]] = t]
          /\ LET new == FreshOwner
                 k == EntryKey(Lookup(m[t], cur[t].val), new)
             IN /\ b' = [b EXCEPT ![t] = k]
                /\ IF k # new
                   THEN UNCHANGED <<content, arcVars>>
                   ELSE /\ content' = [content EXCEPT ![m[t]] = @ \cup {new}]
                        /\ strong' = [strong EXCEPT ![new] = 1]
                        /\ otype' = [otype EXCEPT ![new] = cur[t].ty]
                        /\ oval' = [oval EXCEPT ![new] = cur[t].val]
          /\ pc' = [pc EXCEPT ![t] = "n_clone"]
          /\ UNCHANGED reg_r
  /\ UNCHANGED <<regVars, reg_w, held, cur, m, dropping, removed, rt, vec>>

\* b.key().clone()
NewClone(t) ==
  /\ pc[t] = "n_clone"
  /\ strong' = ArcClone(strong, b[t])
  /\ pc' = [pc EXCEPT ![t] = "n_ret"]
  /\ UNCHANGED <<regVars, content, otype, oval, lockVars, held, localVars, rt, vec>>

\* return ArcIntern { arc }: the guards b and boxed go out of scope.
NewReturn(t) ==
  /\ pc[t] = "n_ret"
  /\ held' = [held EXCEPT ![t][b[t]] = @ + 1]
  /\ slock' = [slock EXCEPT ![m[t]] = NoThread]
  /\ reg_r' = reg_r \ {t}
  /\ cur' = [cur EXCEPT ![t] = NoArg]
  /\ m' = [m EXCEPT ![t] = "none"]
  /\ b' = [b EXCEPT ![t] = 0]
  /\ pc' = [pc EXCEPT ![t] = "idle"]
  /\ UNCHANGED <<regVars, content, arcVars, reg_w, dropping, removed, rt, vec>>

\* ----------------------------------------------------- ArcIntern::clone --
Clone(t, o) ==
  /\ pc[t] = "idle"
  /\ held[t][o] > 0
  /\ HandlesInUse < MaxHandles
  /\ strong' = ArcClone(strong, o)
  /\ held' = [held EXCEPT ![t][o] = @ + 1]
  /\ UNCHANGED <<regVars, content, otype, oval, lockVars, pc, localVars, vec>>

\* ------------------------------------------------- Drop for ArcIntern --
\* A handle of the thread goes out of scope.
DropBegin(t, o) ==
  /\ pc[t] = "idle"
  /\ held[t][o] > 0
  /\ held' = [held EXCEPT ![t][o] = @ - 1]
  /\ dropping' = [dropping EXCEPT ![t] = o]
  /\ pc' = [pc EXCEPT ![t] = "d_get"]
  /\ UNCHANGED <<regVars, content, arcVars, lockVars, cur, m, b, removed, vec>>

\* CONTAINER.get().and_then(|type_map| type_map.get(&TypeId::of::<T>()))
DropGet(t) ==
  /\ pc[t] = "d_get"
  /\ IF container_init
     THEN /\ reg_w = NoThread
          /\ reg_r' = GetGuard(reg_r, t,
                               GetFound(type_map[TypeId(otype[dropping[t]])]))
          /\ IF GetFound(type_map[TypeId(otype[dropping[t]])])
             THEN /\ m' = [m EXCEPT ![t] = TypeId(otype[dropping[t]])]
                  /\ pc' = [pc EXCEPT ![t] = "d_remove"]
             ELSE /\ pc' = [pc EXCEPT ![t] = "d_release"]
                  /\ UNCHANGED m
     ELSE /\ pc' = [pc EXCEPT ![t] = "d_release"]
          /\ UNCHANGED <<reg_r, m>>
  /\ UNCHANGED <<regVars, content, arcVars, reg_w, slock, held,
                 cur, b, dropping, removed, rt, vec>>

\* m.downcast_ref::<Container<T>>().unwrap(), which panics on a box of
\* another type; then
\* m.remove_if(&self.arc, |k, _v| Arc::strong_count(&k) == 2): under the
\* store shard's write lock, the entry whose key equals self.arc is removed
\* when the closure accepts its key.
DropRemoveIf(t) ==
  /\ pc[t] = "d_remove"
  /\ IF ~downcast_ref(boxty[m[t]], otype[dropping[t]])
     THEN /\ pc' = [pc EXCEPT ![t] = "panicked"]
          /\ reg_r' = reg_r \ {t}
          /\ UNCHANGED <<content, removed>>
     ELSE /\ slock[m[t]] = NoThread
          /\ LET hit == Lookup(m[t], oval[dropping[t]])
             IN IF hit # {} /\ RemovePred(CHOOSE k \in hit : TRUE)
                THEN LET k == CHOOSE k \in hit : TRUE
                     IN /\ content' = [content EXCEPT ![m[t]] = @ \ {k}]
                        /\ removed' = [removed EXCEPT ![t] = k]
                ELSE UNCHANGED <<content, removed>>
          /\ pc' = [pc EXCEPT ![t] = "d_dropkv"]
          /\ UNCHANGED reg_r
  /\ UNCHANGED <<regVars, arcVars, reg_w, slock, held, cur, m, b, dropping, rt, vec>>

\* The Option<(Arc<T>, ())> returned by remove_if is dropped at the end of
\* the statement, then the registry guard at the end of the if-let body.
DropRemoved(t) ==
  /\ pc[t] = "d_dropkv"
  /\ IF removed[t] # 0
     THEN /\ strong' = ArcDrop(strong, removed[t])
          /\ otype' = ArcDropVal(otype, removed[t])
          /\ oval' = ArcDropVal(oval, removed[t])
     ELSE UNCHANGED arcVars
  /\ removed' = [removed EXCEPT ![t] = 0]
  /\ reg_r' = reg_r \ {t}
  /\ m' = [m EXCEPT ![t] = "none"]
  /\ pc' = [pc EXCEPT ![t] = "d_release"]
  /\ UNCHANGED <<regVars, content, reg_w, slock, held,
                 cur, b, dropping, rt, vec>>

\* After drop() returns, the field self.arc is dropped.
DropRelease(t) ==
  /\ pc[t] = "d_release"
  /\ strong' = ArcDrop(strong, dropping[t])
  /\ otype' = ArcDropVal(otype, dropping[t])
  /\ oval' = ArcDropVal(oval, dropping[t])
  /\ dropping' = [dropping EXCEPT ![t] = 0]
  /\ pc' = [pc EXCEPT ![t] = "idle"]
  /\ UNCHANGED <<regVars, content, lockVars, held, cur, m, b, removed, vec>>

\* ---------------------------------------- ArcIntern::num_objects_interned --
\* CONTAINER.get().and_then(|type_map| type_map.get(&TypeId::of::<T>())):
\* a read guard when the type has a store, else the call returns 0.
CountGet(t, ty) ==
  /\ pc[t] = "idle"
  /\ IF container_init
     THEN /\ reg_w = NoThread
          /\ reg_r' = GetGuard(reg_r, t, GetFound(type_map[TypeId(ty)]))
          /\ IF GetFound(type_map[TypeId(ty)])
             THEN /\ cur' = [cur EXCEPT ![t] = [ty |-> ty, val |-> "none"]]
                  /\ m' = [m EXCEPT ![t] = TypeId(ty)]
                  /\ pc' = [pc EXCEPT ![t] = "c_len"]
             ELSE UNCHANGED <<cur, m, pc>>
     ELSE UNCHANGED <<reg_r, cur, m, pc>>
  /\ UNCHANGED <<regVars, content, arcVars, reg_w, slock, held,
                 b, dropping, removed, rt, vec>>

\* m.downcast_ref::<Container<T>>().unwrap().len(): the shard is read under
\* its lock, the call returns num_objects_interned(ty) of this state and the
\* guard goes out of scope.
CountLen(t) ==
  /\ pc[t] = "c_len"
  /\ IF ~downcast_ref(boxty[m[t]], cur[t].ty)
     THEN pc' = [pc EXCEPT ![t] = "panicked"]
     ELSE /\ slock[m[t]] = NoThread
          /\ pc' = [pc EXCEPT ![t] = "idle"]
  /\ reg_r' = reg_r \ {t}
  /\ cur' = [cur EXCEPT ![t] = NoArg]
  /\ m' = [m EXCEPT ![t] = "none"]
  /\ UNCHANGED <<regVars, content, arcVars, reg_w, slock, held,
                 b, dropping, removed, rt, vec>>

\* ------------------------------------------------------------------ Next --
Step(t) ==
  \/ \E ty \in Types : \E v \in ValsOf(ty) : NewBegin(t, ty, v)
  \/ NewGet(t)
  \/ NewEntry(t)
  \/ NewOrInsert(t)
  \/ NewStoreEntry(t)
  \/ NewClone(t)
  \/ NewReturn(t)
  \/ \E o \in Owners : Clone(t, o) /\ UNCHANGED rt
  \/ \E o \in Owners : DropBegin(t, o) /\ UNCHANGED rt
  \/ DropGet(t)
  \/ DropRemoveIf(t)
  \/ DropRemoved(t)
  \/ DropRelease(t) /\ UNCHANGED rt
  \/ \E ty \in Types : CountGet(t, ty)
  \/ CountLen(t)

Next == \E t \in Threads : Step(t)

Spec == Init /\ [][Next]_vars

\* The steps that continue an operation a thread has started.
Continue(t) ==
  \/ NewGet(t)
  \/ NewEntry(t)
  \/ NewOrInsert(t)
  \/ NewStoreEntry(t)
  \/ NewClone(t)
  \/ NewReturn(t)
  \/ DropGet(t)
  \/ DropRemoveIf(t)
  \/ DropRemoved(t)
  \/ DropRelease(t) /\ UNCHANGED rt
  \/ CountLen(t)

\* Threads are scheduled fairly and the locks are eventually fair: a thread
\* whose next step is possible again and again eventually takes it.  Nothing
\* obliges a thread to start an operation.
FairSpec == Spec /\ \A t \in Threads : SF_vars(Continue(t))

\* --------------------------------------------- one thread, round trips --
\* A single thread runs new, clone and drop to completion, one after the
\* other.  At any point between two operations it may clone a handle and
\* then drop the original; rt records what was observed before the clone.
Main == "t1"

Between == rt.phase = "none"

RoundTripClone(o) ==
  /\ rt.phase = "none"
  /\ Clone(Main, o)
  /\ rt' = [phase |-> "cloned", o |-> o, val |-> oval[o],
            n |-> num_objects_interned(otype[o]), rc |-> refcount(o)]

RoundTripDropBegin ==
  /\ rt.phase = "cloned"
  /\ DropBegin(Main, rt.o)
  /\ rt' = [rt EXCEPT !.phase = "dropping"]

RoundTripDropStep ==
  /\ rt.phase = "dropping"
  /\ (DropGet(Main) \/ DropRemoveIf(Main) \/ DropRemoved(Main))

RoundTripDropEnd ==
  /\ rt.phase = "dropping"
  /\ DropRelease(Main)
  /\ rt' = [rt EXCEPT !.phase = "done"]

RoundTripReset ==
  /\ rt.phase = "done"
  /\ rt' = NoTrip
  /\ UNCHANGED <<regVars, content, arcVars, lockVars, held, pc, localVars, vec>>

SeqNext ==
  \/ \E ty \in Types : \E v \in ValsOf(ty) : Between /\ NewBegin(Main, ty, v)
  \/ Between /\ NewGet(Main)
  \/ Between /\ NewEntry(Main)
  \/ Between /\ NewOrInsert(Main)
  \/ Between /\ NewStoreEntry(Main)
  \/ Between /\ NewClone(Main)
  \/ Between /\ NewReturn(Main)
  \/ \E o \in Owners : Between /\ Clone(Main, o) /\ UNCHANGED rt
  \/ \E o \in Owners : Between /\ DropBegin(Main, o) /\ UNCHANGED rt
  \/ Between /\ DropGet(Main)
  \/ Between /\ DropRemoveIf(Main)
  \/ Between /\ DropRemoved(Main)
  \/ Between /\ DropRelease(Main) /\ UNCHANGED rt
  \/ \E ty \in Types : Between /\ CountGet(Main, ty)
  \/ Between /\ CountLen(Main)
  \/ \E o \in Owners : RoundTripClone(o)
  \/ RoundTripDropBegin
  \/ RoundTripDropStep
  \/ RoundTripDropEnd
  \/ RoundTripReset

SeqSpec == Init /\ [][SeqNext]_vars

\* ---------------------------------------------------------------- claims --
\* A thread has a handle on owner o: one it keeps, or the one the running
\* new has built and is about to return.
HasHandle(t, o) == held[t][o] > 0 \/ (pc[t] = "n_ret" /\ b[t] = o)

\* The owners that live handles reference.
HandleOwners == {o \in Owners : \E t \in Threads : HasHandle(t, o)}

\* Number of handles on owner o.
NumHandles(o) ==
  LET RECURSIVE Sum(_)
      Sum(S) == IF S = {} THEN 0
                ELSE LET t == CHOOSE x \in S : TRUE
                     IN held[t][o] + (IF pc[t] = "n_ret" /\ b[t] = o THEN 1 ELSE 0)
                        + Sum(S \ {t})
  IN Sum(Threads)

Quiescent == \A t \in Threads : pc[t] = "idle"

\* The store of type ty holds owner o.
InStore(ty, o) == type_map[TypeId(ty)] # 0 /\ o \in content[TypeId(ty)]

\* C1: any two live handles on equal values of the same type reference the
\* same owner, whichever threads interned them and in whatever order.
C1_Uniqueness ==
  \A o1 \in HandleOwners, o2 \in HandleOwners :
    (otype[o1] = otype[o2] /\ oval[o1] = oval[o2]) => o1 = o2

\* C1 witness: two threads have interned the same value; the second call
\* found the first one's entry and is returning a handle on the same owner.
C1_Witness ==
  \E o \in Owners :
    /\ held["t1"][o] > 0
    /\ pc["t2"] = "n_ret" /\ b["t2"] = o
    /\ oval[o] = cur["t2"].val

\* C2: when no operation is in progress the store holds no owner whose only
\* strong reference is the store's own; and once all handles are dropped the
\* stores are empty and every value passed to new has been destroyed.
C2_NoLeakedEntries ==
  Quiescent =>
    /\ \A s \in Types : \A o \in content[s] : strong[o] >= 2
    /\ (HandleOwners = {}) =>
         /\ \A ty \in Types : num_objects_interned(ty) = 0
         /\ \A o \in Owners : strong[o] = 0

\* C3: an owner with a live handle is allocated and has its entry in the
\* store of its type; an entry only leaves a store in the remove_if of the
\* drop of the last handle on its owner, when no other handle is live.
C3_NoPrematureEviction ==
  /\ [](\A o \in HandleOwners : strong[o] > 0 /\ InStore(otype[o], o))
  /\ [][\A s \in Types : \A k \in content[s] :
          k \notin content'[s] =>
            /\ k \notin HandleOwners
            /\ \E t \in Threads : pc[t] = "d_remove" /\ dropping[t] = k]_vars

\* C3 witness: a drop has run its check while another thread had a handle
\* on the same owner, and has left the entry in place.
C3_Witness ==
  \E o \in Owners :
    /\ pc["t1"] = "d_dropkv" /\ dropping["t1"] = o /\ removed["t1"] = 0
    /\ held["t1"][o] = 0
    /\ held["t2"][o] > 0
    /\ InStore(otype[o], o)

\* C4: for an owner with live handles and no drop of one of its handles in
\* progress, refcount() is the number of handles on it.
C4_RefcountIsHandleCount ==
  \A o \in HandleOwners :
    (\A t \in Threads : dropping[t] # o /\ removed[t] # o) =>
      refcount(o) = NumHandles(o)

\* C4 witness: the same value has been interned twice, by two threads, and
\* both handles are kept.
C4_Witness ==
  \E o \in Owners :
    /\ held["t1"][o] = 1 /\ held["t2"][o] = 1
    /\ Quiescent
    /\ refcount(o) = 2

\* C5: in a single-threaded run, between operations, the count of type ty
\* is the number of distinct values of ty with a live handle.
C5_LiveCount ==
  pc[Main] = "idle" =>
    \A ty \in Types :
      num_objects_interned(ty) =
        Cardinality({v \in Vals : \E o \in Owners :
                       held[Main][o] > 0 /\ otype[o] = ty /\ oval[o] = v})

\* C5 witness: two handles on one value: the count of the type is the number
\* of values, not of handles.
C5_Witness ==
  /\ pc[Main] = "idle"
  /\ \E o \in Owners :
       /\ held[Main][o] = 2
       /\ num_objects_interned(otype[o]) = 1

\* The registry shard's lock is requested before, never after, a store
\* shard's lock: the holder of a store lock holds a registry read guard, and
\* a thread requesting the registry lock holds no store lock.
LockOrder ==
  \A t \in Threads : \A ty \in Types :
    slock[ty] = t =>
      /\ t \in reg_r
      /\ reg_w # t
      /\ pc[t] \notin {"n_get", "n_entry", "n_orins", "d_get"}

C7_OneStorePerType ==
  \A k \in Types : nstores[k] <= 1 /\ type_map[k] = nstores[k]

\* C7 witness: a thread that missed the store of its type in `get` holds the
\* write lock and finds that another thread has created the store meanwhile.
C7_Witness ==
  \E t \in Threads :
    /\ pc[t] = "n_orins"
    /\ type_map[TypeId(cur[t].ty)] # 0

\* C8: after cloning a handle and dropping the original, the clone
\* references the same live owner with the same value, the entry is still
\* in the store, and the count of the type and the refcount are what they
\* were before the clone.
C8_CloneRoundTrip ==
  rt.phase = "done" =>
    /\ held[Main][rt.o] > 0
    /\ strong[rt.o] > 0
    /\ oval[rt.o] = rt.val
    /\ InStore(otype[rt.o], rt.o)
    /\ num_objects_interned(otype[rt.o]) = rt.n
    /\ refcount(rt.o) = rt.rc

\* C8 witness: a round trip on the only handle of a value has completed.
C8_Witness == rt.phase = "done" /\ rt.rc = 1 /\ rt.n = 1

\* The type whose store thread t's step from this state to the next works on.
StepType(t) ==
  IF pc[t] = "idle"
  THEN IF pc'[t] \in {"n_get", "c_len"} THEN cur'[t].ty
       ELSE IF pc'[t] = "d_get" THEN otype[dropping'[t]]
       ELSE otype[CHOOSE o \in Owners : held'[t][o] # held[t][o]]
  ELSE IF InNew(t) \/ pc[t] = "c_len" THEN cur[t].ty ELSE otype[dropping[t]]

\* C9: a step of an operation on one type changes neither the count of
\* another type nor the strong count, type or value of an owner of another
\* type.
C9_TypeIndependence ==
  [][\A t \in Threads :
       (pc'[t] # pc[t] \/ held'[t] # held[t]) =>
         \A ty \in Types \ {StepType(t)} :
           /\ num_objects_interned(ty)' = num_objects_interned(ty)
           /\ content'[ty] = content[ty]
           /\ \A o \in Owners :
                (strong[o] > 0 /\ otype[o] = ty) =>
                  /\ strong'[o] = strong[o]
                  /\ otype'[o] = otype[o]
                  /\ oval'[o] = oval[o]]_vars

\* C9 witness: both types have the look-alike value "foo" interned, each
\* under an owner of its own, while a thread is dropping one of them.
C9_Witness ==
  \E o1 \in Owners, o2 \in Owners :
    /\ otype[o1] = "A" /\ otype[o2] = "B"
    /\ oval[o1] = "foo" /\ oval[o2] = "foo"
    /\ held["t1"][o1] > 0
    /\ pc["t2"] = "d_dropkv" /\ removed["t2"] = o2

\* C10: the handle that new(v) returns dereferences to v, and a handle
\* keeps dereferencing to the same live value whatever step any thread takes.
C10_ReadRoundTrip ==
  [][\A t \in Threads :
       /\ (pc[t] = "n_clone" /\ pc'[t] = "n_ret") =>
            (oval'[b'[t]] = cur[t].val /\ otype'[b'[t]] = cur[t].ty)
       /\ \A o \in Owners :
            (HasHandle(t, o) /\ HasHandle(t, o)') =>
              (strong'[o] > 0 /\ oval'[o] = oval[o] /\ otype'[o] = otype[o])]_vars

\* C10 witness: a thread keeps a handle while the other thread, which also
\* had one on the same owner, is releasing its reference.
C10_Witness ==
  \E o \in Owners :
    /\ held["t1"][o] > 0
    /\ pc["t2"] = "d_release" /\ dropping["t2"] = o
    /\ oval[o] = "bar"

\* ------------------------------------------------- ordering of handles --
\* The values of the test `sorting`.
SortVals == 0..5

\* Ordering by the addresses of the owners.
cmpByPointer(o1, o2) ==
  IF o1 < o2 THEN "Less" ELSE IF o1 = o2 THEN "Equal" ELSE "Greater"

\* Ord::cmp for ArcIntern: self.as_ref().cmp(other), the values' ordering.
cmp(o1, o2) ==
  IF oval[o1] < oval[o2] THEN "Less"
  ELSE IF oval[o1] = oval[o2] THEN "Equal" ELSE "Greater"

\* PartialOrd for ArcIntern: each method asks the values.
partial_cmp(o1, o2) ==
  IF oval[o1] < oval[o2] THEN "Less"
  ELSE IF oval[o1] = oval[o2] THEN "Equal" ELSE "Greater"
lt(o1, o2) == oval[o1] < oval[o2]
le(o1, o2) == oval[o1] <= oval[o2]
gt(o1, o2) == oval[o1] > oval[o2]
ge(o1, o2) == oval[o1] >= oval[o2]

\* Vec::sort(): a stable sort by Ord::cmp.
RECURSIVE Insert(_, _)
Insert(s, h) ==
  IF s = <<>> THEN <<h>>
  ELSE IF cmp(h, Head(s)) = "Less" THEN <<h>> \o s
       ELSE <<Head(s)>> \o Insert(Tail(s), h)

RECURSIVE Sort(_)
Sort(s) ==
  IF s = <<>> THEN <<>>
  ELSE Insert(Sort(SubSeq(s, 1, Len(s) - 1)), s[Len(s)])

\* Number of times handle o occurs in s.
Occurrences(s, o) == Cardinality({i \in 1..Len(s) : s[i] = o})

\* The state after one thread has interned distinct integers, under owners
\* at arbitrary addresses, and keeps the handles, clones among them, in a
\* Vec in arbitrary order.
SortInit ==
  \E vals \in [Owners -> SortVals] : \E l \in [1..MaxOwners -> Owners] :
    /\ \A o1, o2 \in Owners : vals[o1] = vals[o2] => o1 = o2
    /\ vec = [phase |-> "built", input |-> l, v |-> l]
    /\ container_init = TRUE
    /\ type_map = [ty \in Types |-> IF ty = "A" THEN 1 ELSE 0]
    /\ nstores = [ty \in Types |-> IF ty = "A" THEN 1 ELSE 0]
    /\ boxty = [ty \in Types |-> IF ty = "A" THEN "A" ELSE "none"]
    /\ content = [ty \in Types |->
                    IF ty = "A" THEN {o \in Owners : Occurrences(l, o) > 0}
                    ELSE {}]
    /\ strong = [o \in Owners |->
                   IF Occurrences(l, o) > 0 THEN Occurrences(l, o) + 1 ELSE 0]
    /\ otype = [o \in Owners |-> IF Occurrences(l, o) > 0 THEN "A" ELSE "none"]
    /\ oval = [o \in Owners |->
                 IF Occurrences(l, o) > 0 THEN vals[o] ELSE "none"]
    /\ reg_w = NoThread
    /\ reg_r = {}
    /\ slock = [ty \in Types |-> NoThread]
    /\ held = [t \in Threads |-> [o \in Owners |->
                 IF t = Main THEN Occurrences(l, o) ELSE 0]]
    /\ pc = [t \in Threads |-> "idle"]
    /\ cur = [t \in Threads |-> NoArg]
    /\ m = [t \in Threads |-> "none"]
    /\ b = [t \in Threads |-> 0]
    /\ dropping = [t \in Threads |-> 0]
    /\ removed = [t \in Threads |-> 0]
    /\ rt = NoTrip

\* interned_vals.sort()
VecSort ==
  /\ vec.phase = "built"
  /\ vec' = [vec EXCEPT !.phase = "sorted", !.v = Sort(vec.v)]
  /\ UNCHANGED <<regVars, content, arcVars, lockVars, held, pc, localVars, rt>>

SortNext == VecSort

SortSpec == SortInit /\ [][SortNext]_vars

\* C12: a sorted Vec of handles holds the handles it held before, in
\* ascending order of their values, wherever their owners are; and lt, le,
\* gt, ge, cmp and partial_cmp of two handles are those of their values.
C12_OrderingByValue ==
  /\ vec.phase = "sorted" =>
       /\ \A o \in Owners : Occurrences(vec.v, o) = Occurrences(vec.input, o)
       /\ \A i, j \in 1..Len(vec.v) :
            i < j =>
              /\ oval[vec.v[i]] <= oval[vec.v[j]]
              /\ le(vec.v[i], vec.v[j]) /\ ge(vec.v[j], vec.v[i])
              /\ ~gt(vec.v[i], vec.v[j]) /\ ~lt(vec.v[j], vec.v[i])
              /\ partial_cmp(vec.v[i], vec.v[j]) # "Greater"
  /\ \A i, j \in 1..Len(vec.v) :
       /\ (cmp(vec.v[i], vec.v[j]) = "Less") = (oval[vec.v[i]] < oval[vec.v[j]])
       /\ (cmp(vec.v[i], vec.v[j]) = "Greater") = (oval[vec.v[i]] > oval[vec.v[j]])
       /\ partial_cmp(vec.v[i], vec.v[j]) = cmp(vec.v[i], vec.v[j])

\* C12 witness: a Vec has been sorted whose values ascend while the
\* addresses of their owners descend.
C12_Witness ==
  /\ vec.phase = "sorted"
  /\ vec.v # vec.input
  /\ \A i, j \in 1..Len(vec.v) : i < j => vec.v[i] > vec.v[j]

\* C11: the handle that new(v1) builds is unequal to every handle that is
\* kept on another value v2 # v1 of the same type: their owners differ.
C11_Distinctness ==
  \A t \in Threads :
    pc[t] = "n_ret" =>
      \A u \in Threads : \A o \in Owners :
        (held[u][o] > 0 /\ otype[o] = cur[t].ty /\ oval[o] # cur[t].val) =>
          ~eq(b[t], o)

\* C11 witness: new("bar") is returning while the other thread keeps a
\* handle on "foo" of the same type.
C11_Witness ==
  \E o \in Owners :
    /\ pc["t1"] = "n_ret" /\ cur["t1"] = [ty |-> "A", val |-> "bar"]
    /\ held["t2"][o] > 0 /\ otype[o] = "A" /\ oval[o] = "foo"

\* C13: the hash of a handle is the hash of its owner's address and not the
\* hash of the value it wraps.
C13_HashByIdentity ==
  \A o \in HandleOwners :
    /\ hash(o) = HashOfPointer(o)
    /\ hash(o) # HashOfValue(oval[o])

\* Number of handles on owner o that are inside their own drop and have not
\* yet released their reference.
NumDropping(o) == Cardinality({t \in Threads : InDrop(t) /\ dropping[t] = o})

\* Number of keys of owner o that a remove_if has taken out of the store and
\* that have not been dropped yet.
NumRemoved(o) == Cardinality({t \in Threads : removed[t] = o})

\* 1 if some store has an entry for owner o, else 0.
StoreRefs(o) == IF \E s \in Types : o \in content[s] THEN 1 ELSE 0

\* C14 as stated: the strong count of every owner is the number of handles
\* holding it, those inside their drop included, plus one exactly when the
\* store has an entry for it.
C14_Accounting ==
  \A o \in Owners :
    strong[o] > 0 =>
      strong_count(o) = NumHandles(o) + NumDropping(o) + StoreRefs(o)

\* C14 amended: the key that remove_if has taken out of the store still
\* counts, until the drop releases it.
C14_AccountingAmended ==
  \A o \in Owners :
    strong_count(o) =
      NumHandles(o) + NumDropping(o) + StoreRefs(o) + NumRemoved(o)

\* C14 witness: a drop has removed the entry of its owner and holds the
\* removed key; the owner's count is 2 with no entry in the store.
C14_Witness ==
  \E t \in Threads : \E o \in Owners :
    /\ pc[t] = "d_dropkv" /\ removed[t] = o /\ dropping[t] = o
    /\ StoreRefs(o) = 0
    /\ strong_count(o) = 2

\* C15: when new finds an entry for its value, the store's entries and all
\* owners are left as they were and the handle is built on the entry found;
\* the clone that follows adds one strong reference to that owner and
\* changes nothing else of the store or the owners.
C15_HitLeavesStore ==
  [][\A t \in Threads :
       /\ (pc[t] = "n_lock" /\ pc'[t] = "n_clone"
           /\ Lookup(m[t], cur[t].val) # {}) =>
            /\ content' = content
            /\ arcVars' = arcVars
            /\ b'[t] \in Lookup(m[t], cur[t].val)
       /\ (pc[t] = "n_clone" /\ pc'[t] = "n_ret") =>
            /\ content' = content
            /\ strong' = [strong EXCEPT ![b[t]] = @ + 1]
            /\ otype' = otype /\ oval' = oval]_vars

\* C15 witness: new has found the entry of a value that the other thread
\* holds and is about to clone its key.
C15_Witness ==
  \E o \in Owners :
    /\ pc["t1"] = "n_clone" /\ b["t1"] = o
    /\ held["t2"][o] > 0
    /\ strong_count(o) = 2
    /\ Cardinality(content[m["t1"]]) = 1

\* C18: every live handle sees a strong count of at least 2, its own
\* reference and the store's, so refcount() is at least 1.
C18_RefcountPositive ==
  \A o \in HandleOwners :
    /\ strong_count(o) >= 2
    /\ refcount(o) >= 1

\* C18 witness: the only handle on a value, while the other thread is
\* finishing the drop of another handle.
C18_Witness ==
  \E o \in Owners :
    /\ held["t1"][o] = 1 /\ refcount(o) = 1
    /\ pc["t2"] = "d_release"

\* C19: the key that a drop's remove_if finds is the owner of the handle
\* being dropped, and the key it takes out of the store is that owner.
C19_DropEvictsOwnOwner ==
  \A t \in Threads :
    /\ pc[t] = "d_remove" =>
         Lookup(m[t], oval[dropping[t]]) = {dropping[t]}
    /\ pc[t] = "d_dropkv" => removed[t] \in {0, dropping[t]}

\* C19 witness: a drop is about to look its value up in a store that also
\* holds the entry of another value.
C19_Witness ==
  \E o \in Owners : \E k \in Owners :
    /\ pc["t1"] = "d_remove" /\ dropping["t1"] = o
    /\ k # o /\ k \in content[m["t1"]] /\ o \in content[m["t1"]]
    /\ held["t2"][k] > 0

\* C16: a `get` that runs when the registry has a store for its type, in
\* new, num_objects_interned or drop, takes a read guard and goes on to the
\* store; the registry's write lock is requested only by a new whose `get`
\* found no store, and taken only through that request.
C16_HotPathReadOnly ==
  [][\A t \in Threads :
       /\ (pc[t] = "n_get" /\ pc'[t] # "n_get"
           /\ type_map[TypeId(cur[t].ty)] # 0) =>
            pc'[t] = "n_lock" /\ t \in reg_r' /\ reg_w' = reg_w
       /\ (pc[t] = "d_get" /\ pc'[t] # "d_get"
           /\ type_map[TypeId(otype[dropping[t]])] # 0) =>
            pc'[t] = "d_remove" /\ t \in reg_r' /\ reg_w' = reg_w
       /\ (pc[t] = "idle" /\ pc'[t] = "c_len") =>
            t \in reg_r' /\ reg_w' = reg_w
       /\ (pc'[t] = "n_entry" /\ pc[t] # "n_entry") =>
            pc[t] = "n_get" /\ type_map[TypeId(cur[t].ty)] = 0
       /\ (reg_w' = t /\ reg_w # t) => pc[t] = "n_entry"]_vars

\* C16 witness: a thread that already has a handle of the type runs
\* another new and holds a read guard, at the same time as a reader that
\* counts the type's objects; nobody holds the write lock.
C16_Witness ==
  /\ pc["t1"] = "c_len" /\ m["t1"] = TypeId("A")
  /\ pc["t2"] = "n_lock" /\ cur["t2"].ty = "A"
  /\ \E o \in Owners : held["t2"][o] > 0 /\ otype[o] = "A"
  /\ reg_r = {"t1", "t2"}
  /\ reg_w = NoThread

\* C17: the box the registry holds under the TypeId of T is a Container<T>,
\* so the downcast of every operation that has reached it succeeds and no
\* operation panics.
C17_DowncastSucceeds ==
  /\ \A ty \in Types :
       type_map[TypeId(ty)] # 0 => downcast_ref(boxty[TypeId(ty)], ty)
  /\ \A t \in Threads :
       /\ pc[t] \in {"n_lock", "c_len"} => downcast_ref(boxty[m[t]], cur[t].ty)
       /\ pc[t] = "d_remove" => downcast_ref(boxty[m[t]], otype[dropping[t]])
       /\ pc[t] # "panicked"

\* C17 witness: both types have a store and a new of each type is about to
\* downcast the box it found.
C17_Witness ==
  /\ pc["t1"] = "n_lock" /\ cur["t1"].ty = "A"
  /\ pc["t2"] = "n_lock" /\ cur["t2"].ty = "B"
  /\ type_map[TypeId("A")] # 0 /\ type_map[TypeId("B")] # 0

====
